---- MODULE Spec2Model ----
(***************************************************************************)
(* Model of the CoinStats gateway in src/main.py: the quota middleware     *)
(* track_requests, the status route home, and the forwarding helper        *)
(* fetch_from_coinstats with its translation of upstream results.          *)
(*                                                                         *)
(* Request paths are sequences of one-character strings so that            *)
(* str.startswith is computed, not assumed.  Every inbound path is an      *)
(* HTTP origin-form path and therefore begins with "/".                    *)
(*                                                                         *)
(* track_requests has no await before call_next, so under the asyncio      *)
(* event loop the whole check-reset-count-limit sequence is one step.      *)
(* fetch_from_coinstats calls the blocking requests library and has no     *)
(* await either, so one forwarding call is one step as well.  Different    *)
(* requests interleave between these steps.                                *)
(***************************************************************************)
EXTENDS Integers, Sequences, FiniteSets, TLC

\* ---------------------------------------------------------------- constants
REQUEST_LIMIT == 950000
RESET_WINDOW_SECONDS == 2592000

\* ------------------------------------------------------------------- bounds
NumClients == 2
MaxEpochs == 1
MaxAdmitted == 2

Clients == 1..NumClients

\* Clock readings (whole seconds since process start) the model visits:
\* the second before every multiple of the reset window, the multiple
\* itself and the two seconds after it.
TimePoints ==
    { t \in { k * RESET_WINDOW_SECONDS + j : k \in 0..MaxEpochs, j \in (0 - 1)..2 } : t >= 0 }

\* -------------------------------------------------------------------- paths
P_docs == <<"/", "d", "o", "c", "s">>
P_openapi == <<"/", "o", "p", "e", "n", "a", "p", "i", ".", "j", "s", "o", "n">>
P_redoc == <<"/", "r", "e", "d", "o", "c">>
P_favicon == <<"/", "f", "a", "v", "i", "c", "o", "n", ".", "i", "c", "o">>
P_root == <<"/">>
P_coins == <<"/", "c", "o", "i", "n", "s">>
P_wallet_tx == <<"/", "w", "a", "l", "l", "e", "t", "/", "t", "r", "a", "n", "s", "a", "c", "t", "i", "o", "n", "s">>
P_status == <<"/", "s", "t", "a", "t", "u", "s">>

\* Inbound requests the model draws from: the status route, a documentation
\* page, two API routes (a GET and the PATCH) and a path no route serves.
Requests ==
    { [path |-> P_root, method |-> "GET"],
      [path |-> P_docs, method |-> "GET"],
      [path |-> P_coins, method |-> "GET"],
      [path |-> P_wallet_tx, method |-> "PATCH"],
      [path |-> P_status, method |-> "GET"] }

\* str.startswith(prefix)
IsPrefix(pre, s) == Len(pre) <= Len(s) /\ SubSeq(s, 1, Len(pre)) = pre

\* str.startswith(tuple_of_prefixes)
StartsWith(s, prefixes) == \E i \in 1..Len(prefixes) : IsPrefix(prefixes[i], s)

\* A mutant: the exemption tuple without its last element "/".
ExemptPrefixes_NoRoot == <<P_docs, P_openapi, P_redoc, P_favicon>>

\* The tuple passed to startswith in track_requests.
ExemptPrefixes == <<P_docs, P_openapi, P_redoc, P_favicon, P_root>>

\* request.url.path.startswith((...)): the request is not counted.
IsExempt(path) == StartsWith(path, ExemptPrefixes)

\* A mutant: the reset test with the boundary second included.
ResetDue_Inclusive(t, last) == t - last >= RESET_WINDOW_SECONDS

\* time.time() - last_reset > 2592000
ResetDue(t, last) == t - last > RESET_WINDOW_SECONDS

\* A mutant: every request is counted, and an exempt one is un-counted.
Counted_Decrement(c, exempt) == IF exempt THEN c - 1 ELSE c + 1

\* A mutant: every request is counted, exempt or not.
Counted_All(c, exempt) == c + 1

\* if not exempt: request_count += 1
Counted(c, exempt) == IF exempt THEN c ELSE c + 1

\* if request_count > REQUEST_LIMIT (tested only in the non-exempt branch)
OverLimit(c, exempt) == (~exempt) /\ c > REQUEST_LIMIT

\* The value track_requests returns instead of calling call_next.
QuotaDenied ==
    [status |-> 429, detail |-> "Monthly request limit reached. Please try again next month."]

\* ------------------------------------------------------------------- routes
\* The routes that delegate to fetch_from_coinstats (those of the sampled
\* paths), with the method they pass.
ApiRoutes ==
    { [path |-> P_coins, method |-> "GET"],
      [path |-> P_wallet_tx, method |-> "GET"],
      [path |-> P_wallet_tx, method |-> "PATCH"] }

\* The handler a request is dispatched to by call_next.
Route(r) ==
    IF r.path = P_root /\ r.method = "GET" THEN "home"
    ELSE IF r \in ApiRoutes THEN "api"
    ELSE "local"

\* str.upper() on the method names the handlers pass.
Upper(m) ==
    CASE m = "get" -> "GET"
      [] m = "post" -> "POST"
      [] m = "patch" -> "PATCH"
      [] OTHER -> m

\* ------------------------------------------------------- upstream results
StatusCodes == {200, 400, 401, 429, 503}
Bodies == {"json", "text"}
TransportFault == [kind |-> "transport", code |-> 0, body |-> "none"]
NoRaw == [kind |-> "none", code |-> 0, body |-> "none"]
\* What one upstream call can return.  The body decides the outcome only
\* for status 200 (response.json()); for the other statuses it is only
\* quoted in the message, so one body stands for all.
RawResults ==
    { u \in [kind : {"status"}, code : StatusCodes, body : Bodies] :
        u.code = 200 \/ u.body = "json" } \cup {TransportFault}

Success == [status |-> 200, detail |-> "upstream json"]
ConnectionError(s) == [status |-> s, detail |-> "Connection Error"]
InternalServerError == [status |-> 500, detail |-> "Internal Server Error"]

\* response.json() on a 200 whose body is not JSON raises a JSON decode
\* error inside the try block.  With requests >= 2.27 that error is a
\* requests.RequestException and the except clause turns it into the 500
\* "Connection Error"; with an older requests it is a plain ValueError that
\* leaves the handler unhandled.  Both builds are possible.
JsonFailure == {ConnectionError(500), InternalServerError}

\* The status branches and the except clause of fetch_from_coinstats: the
\* set of responses the caller can get for one upstream result.
Translate(raw) ==
    IF raw.kind = "transport" THEN {ConnectionError(500)}
    ELSE IF raw.code = 200 THEN
        (IF raw.body = "json" THEN {Success} ELSE JsonFailure)
    ELSE IF raw.code = 400 THEN {[status |-> 400, detail |-> "Bad Request: body"]}
    ELSE IF raw.code = 401 THEN
        {[status |-> 401, detail |-> "Invalid API key or unauthorized access"]}
    ELSE IF raw.code = 429 THEN
        {[status |-> 429, detail |-> "Rate limit exceeded (5 requests per second). Please try again later."]}
    ELSE {[status |-> raw.code, detail |-> "Unexpected Error: body[:200]"]}

\* A mutant: a transport failure is tried a second time.
FetchFromCoinstats_Retry(method, raw) ==
    IF Upper(method) \in {"GET", "POST", "PATCH"}
    THEN [attempts |-> IF raw.kind = "transport" THEN 2 ELSE 1, outcomes |-> Translate(raw)]
    ELSE [attempts |-> 0, outcomes |-> {InternalServerError}]

\* fetch_from_coinstats: the number of requests.get/post/patch calls it
\* makes and the responses it can end with, given what the network returns.
FetchFromCoinstats(method, raw) ==
    IF Upper(method) \in {"GET", "POST", "PATCH"}
    THEN [attempts |-> 1, outcomes |-> Translate(raw)]
    ELSE [attempts |-> 0, outcomes |-> {InternalServerError}]

\* -------------------------------------------------------------------- state
VARIABLES
    request_count,  \* global request_count
    last_reset,     \* global last_reset
    now,            \* the clock time.time() reads
    pc,             \* per client: "idle", "routed" (inside call_next), "responded"
    req,            \* per client: the inbound request
    attempts,       \* per client: upstream network calls made for the request
    raw,            \* per client: what the upstream call returned
    outcome,        \* per client: the response the caller gets
    admitted        \* API-route requests passed to call_next since the last reset

vars == <<request_count, last_reset, now, pc, req, attempts, raw, outcome, admitted>>

NoRequest == [path |-> <<>>, method |-> "none"]
NoOutcome == [status |-> 0, detail |-> "none"]

Init ==
    /\ request_count = 0
    /\ last_reset = 0
    /\ now = 0
    /\ pc = [p \in Clients |-> "idle"]
    /\ req = [p \in Clients |-> NoRequest]
    /\ attempts = [p \in Clients |-> 0]
    /\ raw = [p \in Clients |-> NoRaw]
    /\ outcome = [p \in Clients |-> NoOutcome]
    /\ admitted = 0

\* Time passes.
Tick ==
    /\ \E t \in TimePoints : t > now /\ now' = t
    /\ UNCHANGED <<request_count, last_reset, pc, req, attempts, raw, outcome, admitted>>

\* track_requests up to call_next (or its early return).  The reset branch
\* reads the clock a second time, which may have moved on by then.
Arrive(p) ==
    /\ pc[p] = "idle"
    /\ \E r \in Requests :
        \E t2 \in {t \in TimePoints : t = now \/ t = now + 1} :
            LET due == ResetDue(now, last_reset)
                c1 == IF due THEN 0 ELSE request_count
                exempt == IsExempt(r.path)
                c2 == Counted(c1, exempt)
                denied == OverLimit(c2, exempt)
                api == Route(r) = "api"
                a1 == IF due THEN 0 ELSE admitted
            IN  /\ (api /\ ~denied) => a1 < MaxAdmitted
                /\ (~due) => t2 = now
                /\ request_count' = c2
                /\ last_reset' = IF due THEN t2 ELSE last_reset
                /\ now' = t2
                /\ req' = [req EXCEPT ![p] = r]
                /\ pc' = [pc EXCEPT ![p] = IF denied THEN "responded" ELSE "routed"]
                /\ outcome' = [outcome EXCEPT ![p] = IF denied THEN QuotaDenied ELSE NoOutcome]
                /\ admitted' = IF api /\ ~denied THEN a1 + 1 ELSE a1
                /\ UNCHANGED <<attempts, raw>>

\* The status route.
Home(p) ==
    /\ pc[p] = "routed"
    /\ Route(req[p]) = "home"
    /\ pc' = [pc EXCEPT ![p] = "responded"]
    /\ outcome' = [outcome EXCEPT ![p] =
            [status |-> 200, detail |-> "CoinStats API is running!",
             requests_this_month |-> request_count]]
    /\ UNCHANGED <<request_count, last_reset, now, req, attempts, raw, admitted>>

\* An API route: one call of fetch_from_coinstats.
Forward(p) ==
    /\ pc[p] = "routed"
    /\ Route(req[p]) = "api"
    /\ \E u \in RawResults :
        LET f == FetchFromCoinstats(req[p].method, u)
        IN  \E o \in f.outcomes :
                /\ attempts' = [attempts EXCEPT ![p] = f.attempts]
                /\ raw' = [raw EXCEPT ![p] = IF f.attempts > 0 THEN u ELSE NoRaw]
                /\ outcome' = [outcome EXCEPT ![p] = o]
    /\ pc' = [pc EXCEPT ![p] = "responded"]
    /\ UNCHANGED <<request_count, last_reset, now, req, admitted>>

\* A path served by the framework itself: the documentation page, or the
\* 404 / 405 of a request no route takes.
Local(p) ==
    /\ pc[p] = "routed"
    /\ Route(req[p]) = "local"
    /\ pc' = [pc EXCEPT ![p] = "responded"]
    /\ outcome' = [outcome EXCEPT ![p] =
            IF req[p].path = P_docs /\ req[p].method = "GET"
            THEN [status |-> 200, detail |-> "docs"]
            ELSE [status |-> 404, detail |-> "Not Found"]]
    /\ UNCHANGED <<request_count, last_reset, now, req, attempts, raw, admitted>>

\* The response has been sent; the client may send another request.
Complete(p) ==
    /\ pc[p] = "responded"
    /\ pc' = [pc EXCEPT ![p] = "idle"]
    /\ req' = [req EXCEPT ![p] = NoRequest]
    /\ attempts' = [attempts EXCEPT ![p] = 0]
    /\ raw' = [raw EXCEPT ![p] = NoRaw]
    /\ outcome' = [outcome EXCEPT ![p] = NoOutcome]
    /\ UNCHANGED <<request_count, last_reset, now, admitted>>

Next ==
    \/ Tick
    \/ \E p \in Clients : Arrive(p)
    \/ \E p \in Clients : Home(p)
    \/ \E p \in Clients : Forward(p)
    \/ \E p \in Clients : Local(p)
    \/ \E p \in Clients : Complete(p)

Spec == Init /\ [][Next]_vars

\* ------------------------------------------------------------------- claims
\* A step in which client p's request passes through track_requests.
Arrives(p) == pc[p] = "idle" /\ pc'[p] # "idle"

\* The paths the exemption list names (documentation, static, root).
OnExemptionList(path) == path \in {P_docs, P_openapi, P_redoc, P_favicon, P_root}

\* C1 (as claimed): within one epoch, after N admitted API-route calls with
\* N < REQUEST_LIMIT the quota counter equals exactly N.
C1_CountEqualsAdmitted == admitted < REQUEST_LIMIT => request_count = admitted

\* C3 (as claimed): when now - last_reset >= 2592000, boundary included, the
\* next check sets the counter to 0 and last_reset to the current time, and
\* admits that call.
C3_ResetAtBoundary ==
    [][\A p \in Clients :
        (Arrives(p) /\ now - last_reset >= RESET_WINDOW_SECONDS)
            => (request_count' = 0 /\ last_reset' = now' /\ pc'[p] = "routed")]_vars

\* C3 (amended): when now - last_reset > 2592000, strictly, the next check
\* sets the counter to 0 and last_reset to the current time before the limit
\* is evaluated, and admits that call; at or below 2592000 seconds it leaves
\* last_reset alone.
C3_ResetPastBoundary ==
    [][\A p \in Clients :
        Arrives(p) =>
            IF now - last_reset > RESET_WINDOW_SECONDS
            THEN request_count' = 0 /\ last_reset' = now' /\ pc'[p] = "routed"
            ELSE last_reset' = last_reset]_vars

\* C3 witness: a request was admitted by the very check that reset the epoch.
C3_Witness ==
    \E p \in Clients :
        /\ pc[p] = "routed"
        /\ last_reset = now
        /\ last_reset > RESET_WINDOW_SECONDS
        /\ request_count = 0

\* C6 (as claimed): handling a request whose path is on the exemption list
\* leaves both the counter and last_reset unchanged, and never denies it.
C6_ExemptTouchesNothing ==
    [][\A p \in Clients :
        (Arrives(p) /\ OnExemptionList(req'[p].path))
            => (/\ request_count' = request_count
                /\ last_reset' = last_reset
                /\ outcome'[p] # QuotaDenied)]_vars

\* C6 (amended): a request whose path is on the exemption list is never
\* counted and never denied, and the status route itself changes nothing;
\* but the reset check runs for it as for any request, so when
\* now - last_reset > 2592000 it sets the counter to 0 and last_reset to the
\* current time, and otherwise leaves both unchanged.
C6_ExemptNeverCounted ==
    [][\A p \in Clients :
        /\ (Arrives(p) /\ OnExemptionList(req'[p].path))
            => (/\ pc'[p] = "routed"
                /\ outcome'[p] # QuotaDenied
                /\ IF now - last_reset > RESET_WINDOW_SECONDS
                   THEN request_count' = 0 /\ last_reset' = now'
                   ELSE request_count' = request_count /\ last_reset' = last_reset)
        /\ (pc[p] = "routed" /\ pc'[p] = "responded" /\ req[p].path = P_root)
            => (request_count' = request_count /\ last_reset' = last_reset)]_vars

\* C6 witness: the status route has answered a request that arrived in an
\* epoch started by a reset.
C6_Witness ==
    \E p \in Clients :
        /\ pc[p] = "responded"
        /\ req[p] = [path |-> P_root, method |-> "GET"]
        /\ outcome[p].status = 200
        /\ last_reset > 0

\* The outcome kind a response stands for.
Kind(o) ==
    CASE o = Success -> "Success"
      [] o.detail = "Connection Error" -> "TransportFailure"
      [] o.detail = "Rate limit exceeded (5 requests per second). Please try again later."
            -> "RateLimited"
      [] o.detail \in {"Bad Request: body", "Invalid API key or unauthorized access",
                       "Unexpected Error: body[:200]"} -> "UpstreamRejected"
      [] OTHER -> "Unknown"

\* C7 (as claimed): every upstream result gives exactly the outcome of the
\* table: 200 Success, 400 and 401 UpstreamRejected, 429 RateLimited, any
\* other status UpstreamRejected with that status, a transport failure
\* TransportFailure/500; a status is never turned into the transport failure
\* and nothing falls outside the four kinds.
C7_TranslationTable ==
    \A p \in Clients :
        (pc[p] = "responded" /\ raw[p] # NoRaw) =>
            LET u == raw[p]
                o == outcome[p]
            IN  /\ Kind(o) \in {"Success", "UpstreamRejected", "RateLimited", "TransportFailure"}
                /\ (u.kind = "transport") => (Kind(o) = "TransportFailure" /\ o.status = 500)
                /\ (u.kind = "status") => Kind(o) # "TransportFailure"
                /\ (u.kind = "status" /\ u.code = 200) => (Kind(o) = "Success" /\ o.status = 200)
                /\ (u.kind = "status" /\ u.code = 429) => (Kind(o) = "RateLimited" /\ o.status = 429)
                /\ (u.kind = "status" /\ u.code \notin {200, 429})
                        => (Kind(o) = "UpstreamRejected" /\ o.status = u.code)

\* C8: in every step the counter stays, grows, or is set to 0 by a reset that
\* also moves last_reset to the current time; it is always an integer >= 0.
C8_CounterMonotoneOrReset ==
    /\ request_count \in Nat
    /\ [][/\ request_count' \in Nat
          /\ \/ request_count' >= request_count
             \/ request_count' = 0 /\ last_reset' = now']_vars

\* C8 witness: a reset has happened and requests were handled after it.
C8_Witness ==
    /\ last_reset > RESET_WINDOW_SECONDS
    /\ admitted > 0
    /\ request_count \in Nat

\* C9: a forwarding call with method GET, POST or PATCH makes exactly one
\* upstream network attempt, whatever the upstream returns.
C9_OneUpstreamAttempt ==
    \A p \in Clients :
        (/\ pc[p] = "responded"
         /\ Route(req[p]) = "api"
         /\ outcome[p] # QuotaDenied) => attempts[p] = 1

\* C9 witness: a forwarding call ended in a transport failure after its one
\* attempt.
C9_Witness ==
    \E p \in Clients :
        /\ pc[p] = "responded"
        /\ Route(req[p]) = "api"
        /\ raw[p] = TransportFault
        /\ attempts[p] = 1

====
